---- MODULE Spec2Model ----
(***************************************************************************)
(* Model of the codacy-backend plugin's CodacyConfig (instance registry)   *)
(* and DefaultCodacyInfoProvider (findings aggregation), translated from   *)
(* codacyInfoProvider.ts.                                                  *)
(*                                                                         *)
(* JavaScript values are represented as follows.                           *)
(*  - A string is a TLA+ string; the value undefined in a string position  *)
(*    is the distinguished string Undefined, which no configuration value  *)
(*    or request name equals.  "" is the empty string.                     *)
(*  - A JSON object is a TLA+ function from field names to values; a field *)
(*    the object lacks is a name outside its DOMAIN.                       *)
(*  - What callApi returns is tagged: JUndefined, JNull or JObject(o).     *)
(*  - A metric value is an integer; an average is the exact quotient       *)
(*    [num, den] in lowest terms, and 0/0 is NaN.  The metric values used  *)
(*    are small integers, for which the double-precision sums are exact    *)
(*    and the correctly rounded quotient compares with 60..90 as the exact *)
(*    quotient does.                                                       *)
(***************************************************************************)
EXTENDS Integers, Sequences, FiniteSets, TLC

VARIABLES
    config,        \* the raw configuration tree under the key "codacy"
    construction,  \* Pending, Constructed, or the error fromConfig threw
    instances,     \* CodacyConfig.instances, the registry
    lastCall,      \* the latest synchronous resolution call and its outcome
    inv,           \* the getFindings invocations
    grade,         \* argument of a calculate_grade call
    grade_letter   \* what that call returned

vars == <<config, construction, instances, lastCall, inv, grade, grade_letter>>

----------------------------------------------------------------------------
(* Bounds and input domains *)

MaxInstances == 2
MaxData == 2
MaxGradeThousandths == 100000

Undefined == "<undefined>"
DEFAULT_CODACY_NAME == "default"

Urls == {"https://codacy.example.com", "https://codacy-other.example.com"}
ExternalUrls == {"https://codacy-external.example.com"}
ApiKeys == {"123456789abcdef0123456789abcedf012"}
InstanceNames == {"default", "other"}
RequestNames == {Undefined, "", "default", "other", "missing"}
ComponentKeys == {"dummyComponentKey", "otherComponentKey"}

\* All functions from a subset of the field names in S to the values V(f).
RECURSIVE PartialRecords(_, _)
PartialRecords(S, V) ==
    IF S = {} THEN {<<>>}
    ELSE LET f == CHOOSE x \in S : TRUE
             rest == PartialRecords(S \ {f}, V)
         IN  rest \cup {(f :> v) @@ r : v \in V[f], r \in rest}

SeqsUpTo(S, n) == UNION {[1..k -> S] : k \in 0..n}

\* One entry of codacy.instances (config.d.ts: name, baseUrl and apiKey
\* required, externalBaseUrl optional).
InstanceEntries ==
    {e @@ x : e \in [name : InstanceNames, baseUrl : Urls, apiKey : ApiKeys],
              x \in PartialRecords({"externalBaseUrl"},
                                   [externalBaseUrl |-> ExternalUrls])}

TopLevelFields == {"baseUrl", "externalBaseUrl", "apiKey"}

\* The configuration trees (config.d.ts): every top-level field is optional.
\* A field that is present holds a non-empty string and every named entry has
\* its required fields: the configuration reader rejects anything else before
\* fromConfig sees a value.
Configs ==
    {t @@ l : t \in PartialRecords(TopLevelFields,
                       [baseUrl |-> Urls, externalBaseUrl |-> ExternalUrls,
                        apiKey |-> ApiKeys]),
              l \in {<<>>} \cup
                    {[instances |-> s] : s \in SeqsUpTo(InstanceEntries, MaxInstances)}}

----------------------------------------------------------------------------
(* Outcomes of a call *)

Return(v) == [kind |-> "return", value |-> v]
Throw(e) == [kind |-> "throw", error |-> e]
Error(message) == [message |-> message]

\* JavaScript truthiness of a string-or-undefined value.
TruthyString(s) == s # Undefined /\ s # ""

----------------------------------------------------------------------------
(* @backstage/config accessors, as fromConfig uses them *)

getOptionalString(c, key) == IF key \in DOMAIN c THEN c[key] ELSE Undefined

getOptionalConfigArray(c, key) == IF key \in DOMAIN c THEN c[key] ELSE Undefined

----------------------------------------------------------------------------
(* CodacyConfig *)

\* The map callback of fromConfig: one named instance read from its entry.
NamedInstance(c) ==
    [name |-> c.name,
     baseUrl |-> c.baseUrl,
     externalBaseUrl |-> getOptionalString(c, "externalBaseUrl"),
     apiKey |-> c.apiKey]

namedInstanceConfig(codacyConfig) ==
    LET arr == getOptionalConfigArray(codacyConfig, "instances")
    IN  IF "instances" \in DOMAIN codacyConfig
        THEN [i \in 1..Len(arr) |-> NamedInstance(arr[i])]
        ELSE <<>>

\* A plausible slip: only the first named instance is looked at.
hasNamedDefaultFirstOnly(named) ==
    Len(named) > 0 /\ named[1].name = DEFAULT_CODACY_NAME

hasNamedDefault(named) ==
    \E i \in 1..Len(named) : named[i].name = DEFAULT_CODACY_NAME

ConflictError ==
    Error("Found both a named codacy instance with name default and top level baseUrl or apiKey config. Use only one style of config.")
PartialError ==
    Error("Found partial default codacy config. All (or none) of baseUrl and apiKey must be provided.")

\* A plausible slip: "none present" taken as "not both present".
unnamedNonePresentEither(baseUrl, apiKey) ==
    ~TruthyString(baseUrl) \/ ~TruthyString(apiKey)

unnamedNonePresent(baseUrl, apiKey) ==
    ~TruthyString(baseUrl) /\ ~TruthyString(apiKey)

unnamedAllPresent(baseUrl, apiKey) ==
    TruthyString(baseUrl) /\ TruthyString(apiKey)

\* A plausible slip: the synthetic record built without its external URL.
unnamedInstanceConfigNoExternal(baseUrl, externalBaseUrl, apiKey) ==
    <<[name |-> DEFAULT_CODACY_NAME, baseUrl |-> baseUrl,
       externalBaseUrl |-> Undefined, apiKey |-> apiKey]>>

unnamedInstanceConfig(baseUrl, externalBaseUrl, apiKey) ==
    <<[name |-> DEFAULT_CODACY_NAME, baseUrl |-> baseUrl,
       externalBaseUrl |-> externalBaseUrl, apiKey |-> apiKey]>>

fromConfig(codacyConfig) ==
    LET named == namedInstanceConfig(codacyConfig)
        baseUrl == getOptionalString(codacyConfig, "baseUrl")
        externalBaseUrl == getOptionalString(codacyConfig, "externalBaseUrl")
        apiKey == getOptionalString(codacyConfig, "apiKey")
    IN  IF hasNamedDefault(named)
           /\ (TruthyString(baseUrl) \/ TruthyString(externalBaseUrl)
               \/ TruthyString(apiKey))
        THEN Throw(ConflictError)
        ELSE IF ~(unnamedAllPresent(baseUrl, apiKey)
                  \/ unnamedNonePresent(baseUrl, apiKey))
        THEN Throw(PartialError)
        ELSE IF unnamedAllPresent(baseUrl, apiKey)
        THEN Return(named \o unnamedInstanceConfig(baseUrl, externalBaseUrl, apiKey))
        ELSE Return(named)

\* A plausible slip: the last element satisfying the test is taken.
FindIndexLast(list, name) ==
    IF \E i \in 1..Len(list) : list[i].name = name
    THEN CHOOSE i \in 1..Len(list) :
            /\ list[i].name = name
            /\ \A j \in (i + 1)..Len(list) : list[j].name # name
    ELSE 0

\* Array.prototype.find: the first element satisfying the test, else undefined
\* (here: index 0).
FindIndex(list, name) ==
    IF \E i \in 1..Len(list) : list[i].name = name
    THEN CHOOSE i \in 1..Len(list) :
            /\ list[i].name = name
            /\ \A j \in 1..(i - 1) : list[j].name # name
    ELSE 0

NoDefaultError ==
    Error("Couldn't find a default codacy instance in the config. Either configure an instance with name default or add a prefix to your annotation value.")
NotFoundError(codacyName) ==
    [message |-> "Couldn't find a codacy instance in the config with name",
     name |-> codacyName]

\* A plausible slip: an explicit "default" that finds no record reports the
\* named error, so the message tells it from an omitted name.
getInstanceConfigExplicitMessage(list, codacyName) ==
    IF ~TruthyString(codacyName) \/ codacyName = DEFAULT_CODACY_NAME
    THEN LET i == FindIndex(list, DEFAULT_CODACY_NAME)
         IN  IF i # 0 THEN Return(list[i])
             ELSE IF codacyName = DEFAULT_CODACY_NAME
             THEN Throw(NotFoundError(codacyName))
             ELSE Throw(NoDefaultError)
    ELSE LET i == FindIndex(list, codacyName)
         IN  IF i = 0 THEN Throw(NotFoundError(codacyName)) ELSE Return(list[i])

\* A plausible slip: only an omitted name selects the default, "" does not.
getInstanceConfigOmittedOnly(list, codacyName) ==
    IF codacyName = Undefined \/ codacyName = DEFAULT_CODACY_NAME
    THEN LET i == FindIndex(list, DEFAULT_CODACY_NAME)
         IN  IF i = 0 THEN Throw(NoDefaultError) ELSE Return(list[i])
    ELSE LET i == FindIndex(list, codacyName)
         IN  IF i = 0 THEN Throw(NotFoundError(codacyName)) ELSE Return(list[i])

\* A plausible slip: without a default record the first instance is used.
getInstanceConfigFallback(list, codacyName) ==
    IF ~TruthyString(codacyName) \/ codacyName = DEFAULT_CODACY_NAME
    THEN LET i == FindIndex(list, DEFAULT_CODACY_NAME)
         IN  IF i = 0
             THEN IF list = <<>> THEN Throw(NoDefaultError) ELSE Return(list[1])
             ELSE Return(list[i])
    ELSE LET i == FindIndex(list, codacyName)
         IN  IF i = 0 THEN Throw(NotFoundError(codacyName)) ELSE Return(list[i])

getInstanceConfig(list, codacyName) ==
    IF ~TruthyString(codacyName) \/ codacyName = DEFAULT_CODACY_NAME
    THEN LET i == FindIndex(list, DEFAULT_CODACY_NAME)
         IN  IF i = 0 THEN Throw(NoDefaultError) ELSE Return(list[i])
    ELSE LET i == FindIndex(list, codacyName)
         IN  IF i = 0 THEN Throw(NotFoundError(codacyName)) ELSE Return(list[i])

\* DefaultCodacyInfoProvider.getBaseUrl
getBaseUrl(list, instanceName) ==
    LET r == getInstanceConfig(list, instanceName)
    IN  IF r.kind = "throw" THEN r
        ELSE Return([baseUrl |-> r.value.baseUrl,
                     externalBaseUrl |-> r.value.externalBaseUrl])

----------------------------------------------------------------------------
(* Numbers *)

RECURSIVE GCD(_, _)
GCD(a, b) == IF b = 0 THEN a ELSE GCD(b, a % b)

NaN == [num |-> 0, den |-> 0]

\* The JavaScript quotient a / b of two non-negative integers, exactly:
\* 0/0 is NaN and a/0 is Infinity (1/0).
Divide(a, b) ==
    LET g == GCD(a, b)
    IN  IF g = 0 THEN NaN ELSE [num |-> a \div g, den |-> b \div g]

\* x >= n for a quotient x and an integer n; every comparison with NaN is false.
GreaterEq(x, n) == x # NaN /\ x.num >= n * x.den

----------------------------------------------------------------------------
(* DefaultCodacyInfoProvider *)

\* A plausible slip: thresholds exclusive at their lower bound.
calculate_gradeStrict(g) ==
    LET Greater(x, n) == x # NaN /\ x.num > n * x.den
    IN  IF Greater(g, 90) THEN "A"
        ELSE IF Greater(g, 80) THEN "B"
        ELSE IF Greater(g, 70) THEN "C"
        ELSE IF Greater(g, 60) THEN "D"
        ELSE "F"

calculate_grade(g) ==
    IF GreaterEq(g, 90) THEN "A"
    ELSE IF GreaterEq(g, 80) THEN "B"
    ELSE IF GreaterEq(g, 70) THEN "C"
    ELSE IF GreaterEq(g, 60) THEN "D"
    ELSE "F"

\* Values of the downstream JSON bodies and of callApi's result.
JUndefined == [type |-> "undefined"]
JNull == [type |-> "null"]
JObject(o) == [type |-> "object", value |-> o]
Undecodable == [type |-> "undecodable"]   \* response.json() rejects

Falsy(v) == v.type \in {"undefined", "null"}

\* What fetch can produce: a rejection (no status is obtained), or a response
\* with a status and a body.
TransportFailure == [kind |-> "failure"]
Http(status, body) == [kind |-> "http", status |-> status, body |-> body]

Statuses == {200, 201, 500}

CounterNames == {"totalOpen", "totalClosed", "onTrack", "closedOnTime"}
MetricNames == {"grade", "coveragePercentageWithDecimals", "issuesPercentage",
                "complexFilesPercentage", "duplicationPercentage"}

SecurityBodies ==
    {Undecodable, JNull,
     JObject([invalid |-> TRUE]),
     JObject([data |-> <<>>]),
     JObject([data |-> [totalOpen |-> 3, totalClosed |-> 5,
                        onTrack |-> 2, closedOnTime |-> 4]]),
     JObject([data |-> [totalOpen |-> 0, totalClosed |-> 1,
                        onTrack |-> 0, closedOnTime |-> 1]])}

AnalysisRecords ==
    {<<>>,
     [grade |-> 100, coveragePercentageWithDecimals |-> 100, issuesPercentage |-> 0,
      complexFilesPercentage |-> 0, duplicationPercentage |-> 0],
     [grade |-> 80, coveragePercentageWithDecimals |-> 70, issuesPercentage |-> 10,
      complexFilesPercentage |-> 20, duplicationPercentage |-> 30],
     [grade |-> 59, coveragePercentageWithDecimals |-> 0],
     [grade |-> 0, issuesPercentage |-> 40]}

AnalysisBodies ==
    {Undecodable, JNull, JObject([invalid |-> TRUE])}
    \cup {JObject([data |-> d]) : d \in SeqsUpTo(AnalysisRecords, MaxData)}

Responses(bodies) ==
    {TransportFailure} \cup {Http(s, b) : s \in Statuses, b \in bodies}

\* The request callApi sends: url, path and authToken are its arguments.
Request(url, path, authToken) ==
    [method |-> "POST", url |-> url, path |-> path,
     apiToken |-> authToken, body |-> "{}"]

SecurityPath(componentKey) ==
    <<"organizations/gh", componentKey, "security/dashboard">>
AnalysisPath ==
    <<"search/analysis/organizations/gh", "MonkeyECX", "repositories">>

\* A plausible slip: any 2xx answer accepted (response.ok).
callApiOk(response) ==
    IF response.kind = "failure" THEN Throw(Error("FetchError: request failed"))
    ELSE IF response.status >= 200 /\ response.status < 300
    THEN IF response.body = Undecodable
         THEN Throw(Error("SyntaxError: invalid json response body"))
         ELSE Return(response.body)
    ELSE Return(JUndefined)

\* callApi once fetch has settled with `response`.
callApi(response) ==
    IF response.kind = "failure" THEN Throw(Error("FetchError: request failed"))
    ELSE IF response.status = 200
    THEN IF response.body = Undecodable THEN Throw(Error("SyntaxError: invalid json response body"))
         ELSE Return(response.body)
    ELSE Return(JUndefined)

\* One turn of the for..in loop of getFindings, for one metric of one record:
\* the value when it is truthy, else 100.
Contribution(record, metric) ==
    IF metric \in DOMAIN record /\ record[metric] # 0
    THEN record[metric] ELSE 100

RECURSIVE Total(_, _)
Total(data, metric) ==
    IF data = <<>> THEN 0
    ELSE Contribution(data[1], metric) + Total(Tail(data), metric)

\* The synchronous tail of getFindings, from the loop to the return; security
\* and analysis are the objects the two calls returned.
Summarize(security, analysis) ==
    LET data == analysis.data
        grade_average == Divide(Total(data, "grade"), Len(data))
    IN  IF "data" \notin DOMAIN security
        THEN Throw(Error("TypeError: Cannot read properties of undefined"))
        ELSE Return(JObject(
               [grade |-> grade_average,
                grade_letter |-> calculate_grade(grade_average),
                code_coverage |->
                    Divide(Total(data, "coveragePercentageWithDecimals"), Len(data)),
                issuesPercentage |->
                    Divide(Total(data, "issuesPercentage"), Len(data)),
                complexFilesPercentage |->
                    Divide(Total(data, "complexFilesPercentage"), Len(data)),
                duplicationPercentage |->
                    Divide(Total(data, "duplicationPercentage"), Len(data))]
               @@ [c \in CounterNames \cap DOMAIN security.data |-> security.data[c]]))

\* A plausible slip: the early-return gate after the security call is missing,
\* so the analysis call is issued whatever the security call returned.
AfterSecurityNoGate(called) ==
    IF called.kind = "throw" THEN [pc |-> "done", result |-> called]
    ELSE [pc |-> "awaitAnalysis", result |-> [kind |-> "pending"]]

\* A plausible slip: on an absent first payload the function waits for the
\* analysis result without having issued the analysis call.
AfterSecurityHang(called) ==
    IF called.kind = "throw" THEN [pc |-> "done", result |-> called]
    ELSE IF Falsy(called.value) THEN [pc |-> "hung", result |-> [kind |-> "pending"]]
    ELSE [pc |-> "awaitAnalysis", result |-> [kind |-> "pending"]]

\* getFindings from the first await's resolution to the second call or a return.
AfterSecurity(called) ==
    IF called.kind = "throw" THEN [pc |-> "done", result |-> called]
    ELSE IF Falsy(called.value) THEN [pc |-> "done", result |-> Return(JUndefined)]
    ELSE [pc |-> "awaitAnalysis", result |-> [kind |-> "pending"]]

\* getFindings from the second await's resolution to its return.
AfterAnalysis(security, called) ==
    IF called.kind = "throw" THEN called
    ELSE IF Falsy(called.value) \/ "data" \notin DOMAIN called.value.value
    THEN Return(JUndefined)
    ELSE Summarize(security.value, called.value.value)

----------------------------------------------------------------------------
(* State machine *)

\* The getFindings invocations a run follows.
Invocations == {1}

Pending == [kind |-> "pending"]
Constructed == [kind |-> "constructed"]

IdleInvocation ==
    [pc |-> "idle", componentKey |-> Undefined, instanceName |-> Undefined,
     calls |-> <<>>, responses |-> <<>>, security |-> JUndefined, result |-> Pending]

NoCall == [op |-> "none", name |-> Undefined, outcome |-> Pending]

\* Configurations of the aggregation runs: no external URL, at most one named
\* instance, the top-level block complete or absent.
FindingsConfigs ==
    {c \in Configs :
        /\ "instances" \in DOMAIN c
        /\ Len(c.instances) <= 1
        /\ "externalBaseUrl" \notin DOMAIN c
        /\ \A i \in 1..Len(c.instances) : "externalBaseUrl" \notin DOMAIN c.instances[i]
        /\ ("baseUrl" \in DOMAIN c) = ("apiKey" \in DOMAIN c)}

Thousandths(t) == Divide(t, 1000)

InitWith(configs, grades) ==
    /\ config \in configs
    /\ construction = Pending
    /\ instances = <<>>
    /\ lastCall = NoCall
    /\ inv = [i \in Invocations |-> IdleInvocation]
    /\ grade \in grades
    /\ grade_letter = ""

Init == InitWith(Configs, {NaN})

InitFindings == InitWith(FindingsConfigs, {NaN})

InitGrade ==
    InitWith({<<>>}, {NaN} \cup {Thousandths(t) : t \in 0..MaxGradeThousandths})

\* CodacyConfig.fromConfig(config), also as DefaultCodacyInfoProvider.fromConfig
\* calls it.
FromConfig ==
    /\ construction = Pending
    /\ LET r == fromConfig(config)
       IN  IF r.kind = "return"
           THEN construction' = Constructed /\ instances' = r.value
           ELSE construction' = r /\ instances' = instances
    /\ UNCHANGED <<config, lastCall, inv, grade, grade_letter>>

GetInstanceConfig(codacyName) ==
    /\ construction = Constructed
    /\ lastCall' = [op |-> "getInstanceConfig", name |-> codacyName,
                    outcome |-> getInstanceConfig(instances, codacyName)]
    /\ UNCHANGED <<config, construction, instances, inv, grade, grade_letter>>

GetBaseUrl(instanceName) ==
    /\ construction = Constructed
    /\ lastCall' = [op |-> "getBaseUrl", name |-> instanceName,
                    outcome |-> getBaseUrl(instances, instanceName)]
    /\ UNCHANGED <<config, construction, instances, inv, grade, grade_letter>>

\* getFindings up to its first await: resolution, then the security call.
GetFindings(i, componentKey, instanceName) ==
    /\ construction = Constructed
    /\ inv[i].pc = "idle"
    /\ LET r == getInstanceConfig(instances, instanceName)
           started == [inv[i] EXCEPT !.componentKey = componentKey,
                                     !.instanceName = instanceName]
       IN  inv' = [inv EXCEPT ![i] =
                IF r.kind = "throw"
                THEN [started EXCEPT !.pc = "done", !.result = r]
                ELSE [started EXCEPT
                        !.pc = "awaitSecurity",
                        !.calls = <<Request(r.value.baseUrl,
                                            SecurityPath(componentKey),
                                            r.value.apiKey)>>]]
    /\ UNCHANGED <<config, construction, instances, lastCall, grade, grade_letter>>

\* The security call settles; getFindings runs to its second await or returns.
SecurityAnswer(i, response) ==
    /\ inv[i].pc = "awaitSecurity"
    /\ LET called == callApi(response)
           next == AfterSecurity(called)
           first == inv[i].calls[1]
       IN  inv' = [inv EXCEPT ![i] =
                [@ EXCEPT
                   !.pc = next.pc,
                   !.result = next.result,
                   !.responses = Append(@, response),
                   !.security = IF called.kind = "return" THEN called.value
                                ELSE JUndefined,
                   !.calls = IF next.pc = "awaitAnalysis"
                             THEN Append(@, Request(first.url, AnalysisPath,
                                                    first.apiToken))
                             ELSE @]]
    /\ UNCHANGED <<config, construction, instances, lastCall, grade, grade_letter>>

\* A plausible slip: the first payload is kept in a field of the provider that
\* every invocation writes, so the summary is built from the payload of the
\* latest invocation that received one.
AnalysisAnswerShared(i, response) ==
    /\ inv[i].pc = "awaitAnalysis"
    /\ LET holders == {j \in DOMAIN inv : inv[j].security # JUndefined}
           latest == CHOOSE j \in holders : \A k \in holders : k <= j
       IN  inv' = [inv EXCEPT ![i] =
                [@ EXCEPT
                   !.pc = "done",
                   !.responses = Append(@, response),
                   !.result = AfterAnalysis(inv[latest].security, callApi(response))]]
    /\ UNCHANGED <<config, construction, instances, lastCall, grade, grade_letter>>

\* The analysis call settles; getFindings runs to its return.
AnalysisAnswer(i, response) ==
    /\ inv[i].pc = "awaitAnalysis"
    /\ inv' = [inv EXCEPT ![i] =
                [@ EXCEPT
                   !.pc = "done",
                   !.responses = Append(@, response),
                   !.result = AfterAnalysis(inv[i].security, callApi(response))]]
    /\ UNCHANGED <<config, construction, instances, lastCall, grade, grade_letter>>

CalculateGrade ==
    /\ grade_letter = ""
    /\ grade_letter' = calculate_grade(grade)
    /\ UNCHANGED <<config, construction, instances, lastCall, inv, grade>>

Resolve ==
    \E n \in RequestNames : GetInstanceConfig(n) \/ GetBaseUrl(n)

Next == FromConfig \/ Resolve

Spec == Init /\ [][Next]_vars

Start ==
    \E i \in Invocations, k \in ComponentKeys, n \in RequestNames :
        GetFindings(i, k, n)

SecuritySettles ==
    \E i \in Invocations, r \in Responses(SecurityBodies) : SecurityAnswer(i, r)

AnalysisSettles ==
    \E i \in Invocations, r \in Responses(AnalysisBodies) : AnalysisAnswer(i, r)

NextFindings == FromConfig \/ Start \/ SecuritySettles \/ AnalysisSettles

SpecFindings == InitFindings /\ [][NextFindings]_vars

\* Two getFindings invocations in flight at once, interleaved with resolutions;
\* the router starts one per HTTP request and nothing serialises them.
ConcurrentInvocations == {1, 2}

\* Registries of the concurrent runs: a complete top-level block and one named
\* instance called "other", at the same URL or at another one.
ConcurrentConfigs ==
    {c \in FindingsConfigs :
        /\ "baseUrl" \in DOMAIN c
        /\ c.baseUrl = "https://codacy.example.com"
        /\ Len(c.instances) = 1
        /\ c.instances[1].name = "other"}

ConcurrentNames == {Undefined, "other", "missing"}

ConcurrentSecurityResponses ==
    {TransportFailure, Http(500, JNull)}
        \cup {Http(200, b) : b \in {s \in SecurityBodies :
                                       /\ s \notin {Undecodable, JNull}
                                       /\ "data" \in DOMAIN s.value
                                       /\ s.value.data # <<>>}}

ConcurrentAnalysisResponses ==
    {Http(500, JNull)}
        \cup {Http(200, JObject([data |-> <<r>>])) :
                 r \in {a \in AnalysisRecords : DOMAIN a = MetricNames}}

InitConcurrent ==
    /\ config \in ConcurrentConfigs
    /\ construction = Pending
    /\ instances = <<>>
    /\ lastCall = NoCall
    /\ inv = [i \in ConcurrentInvocations |-> IdleInvocation]
    /\ grade = NaN
    /\ grade_letter = ""

ConcurrentResolve ==
    \E n \in ConcurrentNames : GetInstanceConfig(n) \/ GetBaseUrl(n)

ConcurrentStart ==
    \E i \in ConcurrentInvocations, k \in ComponentKeys, n \in ConcurrentNames :
        GetFindings(i, k, n)

SecurityAnswered(i) ==
    \E r \in ConcurrentSecurityResponses : SecurityAnswer(i, r)

AnalysisAnswered(i) ==
    \E r \in ConcurrentAnalysisResponses : AnalysisAnswer(i, r)

ConcurrentSettles ==
    \E i \in ConcurrentInvocations : SecurityAnswered(i) \/ AnalysisAnswered(i)

NextConcurrent ==
    FromConfig \/ ConcurrentResolve \/ ConcurrentStart \/ ConcurrentSettles

\* Every call that is issued is answered: fetch settles each pending promise.
EveryCallAnswered ==
    \A i \in ConcurrentInvocations :
        WF_vars(SecurityAnswered(i)) /\ WF_vars(AnalysisAnswered(i))

SpecConcurrent == InitConcurrent /\ [][NextConcurrent]_vars /\ EveryCallAnswered

NextGrade == CalculateGrade

SpecGrade == InitGrade /\ [][NextGrade]_vars

----------------------------------------------------------------------------
(* Properties of construction and resolution (specification Spec) *)

TopLevelPresent == DOMAIN config \cap TopLevelFields

ConfiguredEntries == IF "instances" \in DOMAIN config THEN config.instances ELSE <<>>

NamedDefaultConfigured ==
    \E i \in 1..Len(ConfiguredEntries) :
        ConfiguredEntries[i].name = DEFAULT_CODACY_NAME

ExactlyOneOfBaseUrlApiKey ==
    ("baseUrl" \in DOMAIN config) # ("apiKey" \in DOMAIN config)

\* C1: a configuration with a named "default" entry and any top-level field
\* (whichever, complete block or not) makes fromConfig throw the conflict error,
\* and no registry is produced.
C1_ConflictError ==
    (construction # Pending /\ NamedDefaultConfigured /\ TopLevelPresent # {})
        => construction = Throw(ConflictError) /\ instances = <<>>

\* C1 witness: the default entry is not the first one and the top-level block is
\* incomplete (baseUrl alone), yet the conflict error is what is thrown.
C1_Witness ==
    /\ construction = Throw(ConflictError)
    /\ TopLevelPresent = {"baseUrl"}
    /\ Len(ConfiguredEntries) = 2
    /\ ConfiguredEntries[1].name # DEFAULT_CODACY_NAME

\* C2 as stated: exactly one of top-level baseUrl and apiKey makes fromConfig
\* throw the incompleteness error, whatever else the configuration holds.
C2_Original ==
    (construction # Pending /\ ExactlyOneOfBaseUrlApiKey)
        => construction = Throw(PartialError) /\ instances = <<>>

\* C2 amended: exactly one of top-level baseUrl and apiKey makes fromConfig
\* throw the incompleteness error when no named entry is called "default", and
\* the conflict error when one is; no registry is produced either way.
C2_PartialError ==
    (construction # Pending /\ ExactlyOneOfBaseUrlApiKey)
        => /\ instances = <<>>
           /\ construction = IF NamedDefaultConfigured
                             THEN Throw(ConflictError)
                             ELSE Throw(PartialError)

\* C2 witness: apiKey alone beside a named instance other than "default".
C2_Witness ==
    /\ construction = Throw(PartialError)
    /\ TopLevelPresent = {"apiKey"}
    /\ Len(ConfiguredEntries) = 1

OnlyTopLevelFullySet ==
    /\ {"baseUrl", "apiKey"} \subseteq DOMAIN config
    /\ ConfiguredEntries = <<>>

ConfiguredDefault ==
    [name |-> "default",
     baseUrl |-> config.baseUrl,
     externalBaseUrl |-> IF "externalBaseUrl" \in DOMAIN config
                         THEN config.externalBaseUrl ELSE Undefined,
     apiKey |-> config.apiKey]

\* C3: with only the top-level block fully set, construction succeeds and
\* resolving with no name or with "default" returns the record named "default"
\* that carries exactly the configured baseUrl, externalBaseUrl and apiKey.
C3_SimpleConfig ==
    (construction # Pending /\ OnlyTopLevelFullySet)
        => /\ construction = Constructed
           /\ (lastCall.op = "getInstanceConfig"
               /\ lastCall.name \in {Undefined, "default"})
                 => lastCall.outcome = Return(ConfiguredDefault)
           /\ (lastCall.op = "getBaseUrl"
               /\ lastCall.name \in {Undefined, "default"})
                 => lastCall.outcome =
                       Return([baseUrl |-> ConfiguredDefault.baseUrl,
                               externalBaseUrl |-> ConfiguredDefault.externalBaseUrl])

\* C3 witness: a simple configuration with an external URL, resolved with no
\* name.
C3_Witness ==
    /\ OnlyTopLevelFullySet
    /\ "externalBaseUrl" \in DOMAIN config
    /\ lastCall.op = "getInstanceConfig"
    /\ lastCall.name = Undefined
    /\ lastCall.outcome.kind = "return"

DefaultRequests == {Undefined, "", DEFAULT_CODACY_NAME}

HasRecordNamed(n) == \E i \in 1..Len(instances) : instances[i].name = n

\* C4: a resolution with the name omitted, empty or "default" has the outcome
\* the omitted name has, which is a record named "default" when the registry
\* holds one; a resolution with another name returns only a record of that
\* name.
C4_DefaultAliases ==
    /\ (lastCall.op = "getInstanceConfig" /\ lastCall.name \in DefaultRequests)
         => /\ lastCall.outcome = getInstanceConfig(instances, Undefined)
            /\ HasRecordNamed(DEFAULT_CODACY_NAME)
                  => /\ lastCall.outcome.kind = "return"
                     /\ lastCall.outcome.value.name = DEFAULT_CODACY_NAME
    /\ (lastCall.op = "getBaseUrl" /\ lastCall.name \in DefaultRequests)
         => /\ lastCall.outcome = getBaseUrl(instances, Undefined)
            /\ HasRecordNamed(DEFAULT_CODACY_NAME) => lastCall.outcome.kind = "return"
    /\ (lastCall.op = "getInstanceConfig" /\ lastCall.name \notin DefaultRequests
        /\ lastCall.outcome.kind = "return")
         => lastCall.outcome.value.name = lastCall.name

\* C4 witness: the empty string resolves to the default record, which is not
\* the first of the registry.
C4_Witness ==
    /\ lastCall.op = "getInstanceConfig"
    /\ lastCall.name = ""
    /\ lastCall.outcome.kind = "return"
    /\ Len(instances) = 2
    /\ instances[1].name = "other"

EffectiveName(n) == IF n \in DefaultRequests THEN DEFAULT_CODACY_NAME ELSE n

\* C5: a resolution whose (effective) name no record carries throws: the named
\* error for a non-default name, the default error for "default" or no name;
\* and whatever a resolution returns is a configured record of that name.
C5_NotFound ==
    lastCall.op # "none"
        => /\ ~HasRecordNamed(EffectiveName(lastCall.name))
                => lastCall.outcome =
                      IF lastCall.name \in DefaultRequests
                      THEN Throw(NoDefaultError)
                      ELSE Throw(NotFoundError(lastCall.name))
           /\ (lastCall.op = "getInstanceConfig" /\ lastCall.outcome.kind = "return")
                => \E i \in 1..Len(instances) :
                      /\ instances[i] = lastCall.outcome.value
                      /\ instances[i].name = EffectiveName(lastCall.name)

\* C5 witness: "default" requested from a registry that holds only "other".
C5_Witness ==
    /\ lastCall.name = DEFAULT_CODACY_NAME
    /\ lastCall.outcome = Throw(NoDefaultError)
    /\ Len(instances) > 0

----------------------------------------------------------------------------
(* Properties of getFindings (specification SpecFindings) *)

Absent == Return(JUndefined)

IsSummary(result) == result.kind = "return" /\ result.value.type = "object"

\* The n-th response of invocation i is an HTTP answer (a status was obtained).
Answered(i, n) ==
    Len(inv[i].responses) >= n /\ inv[i].responses[n].kind = "http"

\* The n-th response of invocation i is a 200 whose body decoded to an object.
AnsweredObject(i, n) ==
    /\ Answered(i, n)
    /\ inv[i].responses[n].status = 200
    /\ inv[i].responses[n].body.type = "object"

LacksData(i, n) ==
    AnsweredObject(i, n) /\ "data" \notin DOMAIN inv[i].responses[n].body.value

\* C6: getFindings has returned absent as soon as the security call answers with
\* a status other than 200, or the analysis call answers with a status other
\* than 200 or with a 200 whose body has no analysis array.
C6_AbsentOnFailure ==
    \A i \in Invocations :
        ((Answered(i, 1) /\ inv[i].responses[1].status # 200)
         \/ (Answered(i, 2) /\ inv[i].responses[2].status # 200)
         \/ LacksData(i, 2))
            => inv[i].pc = "done" /\ inv[i].result = Absent

\* C6 witness: both calls answered 200, the second with an object lacking the
\* array, and the invocation returned absent.
C6_Witness ==
    \E i \in Invocations :
        /\ LacksData(i, 2)
        /\ inv[i].responses[1].status = 200
        /\ inv[i].result = Absent

\* C7: once the instance is resolved (a call was issued), a finished getFindings
\* has returned a summary or absent, whatever the downstream did.
C7_NeverThrows ==
    \A i \in Invocations :
        (inv[i].pc = "done" /\ inv[i].calls # <<>>) => inv[i].result.kind = "return"

\* The security call answered 200 with a decoded body that lacks the data
\* object or one of its four counters.
UnexpectedSecurityShape(i) ==
    /\ Answered(i, 1)
    /\ inv[i].responses[1].status = 200
    /\ inv[i].responses[1].body # Undecodable
    /\ \/ inv[i].responses[1].body.type # "object"
       \/ LacksData(i, 1)
       \/ ~(CounterNames \subseteq DOMAIN inv[i].responses[1].body.value.data)

\* C8: when the security call answers 200 with a body of unexpected shape,
\* getFindings returns absent, whatever decoded answer the analysis call gets.
C8_AbsentOnBadSecurityShape ==
    \A i \in Invocations :
        (/\ inv[i].pc = "done"
         /\ UnexpectedSecurityShape(i)
         /\ Len(inv[i].responses) = 2
              => Answered(i, 2) /\ inv[i].responses[2].body # Undecodable)
            => inv[i].result = Absent

\* The claim's reading of one metric of one record: its value when the field is
\* present, 0 included; 100 when the field is absent.
ClaimedContribution(record, metric) ==
    IF metric \in DOMAIN record THEN record[metric] ELSE 100

RECURSIVE ClaimedTotal(_, _)
ClaimedTotal(data, metric) ==
    IF data = <<>> THEN 0
    ELSE ClaimedContribution(data[1], metric) + ClaimedTotal(Tail(data), metric)

SummaryField ==
    [grade |-> "grade",
     coveragePercentageWithDecimals |-> "code_coverage",
     issuesPercentage |-> "issuesPercentage",
     complexFilesPercentage |-> "complexFilesPercentage",
     duplicationPercentage |-> "duplicationPercentage"]

\* C9: for a non-empty analysis array every averaged field of the summary is
\* the sum of the records' values (0 included as a value, 100 for an absent
\* field) divided by the number of records.
C9_Averages ==
    \A i \in Invocations :
        (IsSummary(inv[i].result) /\ inv[i].responses[2].body.value.data # <<>>)
            => LET data == inv[i].responses[2].body.value.data
               IN  \A m \in MetricNames :
                       inv[i].result.value.value[SummaryField[m]]
                           = Divide(ClaimedTotal(data, m), Len(data))

----------------------------------------------------------------------------
(* Properties of calculate_grade (specification SpecGrade) *)

\* The graded value in thousandths; it is a whole number of them.
GradeThousandths == (grade.num * 1000) \div grade.den

\* C10: calculate_grade gives A from 90, B from 80 to below 90, C from 70 to
\* below 80, D from 60 to below 70 and F below 60; in particular 90 gives A,
\* 89.999 B, 80 B, 69.999 D and 59.999 F.
C10_GradeLetter ==
    (grade_letter # "" /\ grade # NaN)
        => LET t == GradeThousandths
           IN  /\ grade_letter \in {"A", "B", "C", "D", "F"}
               /\ (grade_letter = "A") = (t >= 90000)
               /\ (grade_letter = "B") = (80000 <= t /\ t < 90000)
               /\ (grade_letter = "C") = (70000 <= t /\ t < 80000)
               /\ (grade_letter = "D") = (60000 <= t /\ t < 70000)
               /\ (grade_letter = "F") = (t < 60000)

\* C10 witness: exactly 90 was graded A.
C10_Witness ==
    grade = Thousandths(90000) /\ grade_letter = "A"

\* C11: when both calls answer 200 and the analysis array is present but empty,
\* getFindings returns a summary whose five averaged fields are all NaN; it
\* neither returns absent nor throws.
C11_EmptyArrayNaN ==
    \A i \in DOMAIN inv :
        (/\ inv[i].pc = "done"
         /\ Answered(i, 1) /\ inv[i].responses[1].status = 200
         /\ AnsweredObject(i, 2) /\ ~LacksData(i, 2)
         /\ inv[i].responses[2].body.value.data = <<>>)
            => /\ IsSummary(inv[i].result)
               /\ \A m \in MetricNames :
                     inv[i].result.value.value[SummaryField[m]] = NaN

----------------------------------------------------------------------------
(* Further properties of construction and resolution (specification Spec) *)

\* C12: a registry built by a successful fromConfig holds no two records of
\* the same name.
C12_UniqueNames ==
    construction = Constructed
        => \A i, j \in 1..Len(instances) :
              i # j => instances[i].name # instances[j].name

----------------------------------------------------------------------------
(* Further properties of getFindings (specification SpecFindings) *)

IsSecurityCall(request) == request.path[3] = "security/dashboard"
IsAnalysisCall(request) == request.path[3] = "repositories"

\* What holds of the calls of invocation i in every state: at most two, the
\* security call first and the analysis call second, each issued once; a call
\* is issued only when every earlier one has settled, the analysis call only
\* after a 200 answer to the security call; none when resolution failed; and
\* a finished invocation has no call in flight.
CallsInOrder(i) ==
    LET calls == inv[i].calls
        responses == inv[i].responses
    IN  /\ Len(calls) <= 2
        /\ Len(calls) >= 1 => IsSecurityCall(calls[1])
        /\ Len(calls) = 2
             => /\ IsAnalysisCall(calls[2])
                /\ responses[1].kind = "http"
                /\ responses[1].status = 200
        /\ Len(responses) <= Len(calls)
        /\ Len(calls) <= Len(responses) + 1
        /\ inv[i].pc = "awaitSecurity" => Len(calls) = 1 /\ Len(responses) = 0
        /\ inv[i].pc = "awaitAnalysis" => Len(calls) = 2 /\ Len(responses) = 1
        /\ inv[i].pc = "idle" => calls = <<>>
        /\ inv[i].pc = "done" => Len(responses) = Len(calls)
        /\ (inv[i].pc = "done" /\ responses = <<>>) => calls = <<>>

\* A step never withdraws or repeats a call: the calls grow by at most one
\* request at the end, and not at all once the invocation has finished.
CallsOnlyAppended(i) ==
    /\ Len(inv'[i].calls) \in {Len(inv[i].calls), Len(inv[i].calls) + 1}
    /\ SubSeq(inv'[i].calls, 1, Len(inv[i].calls)) = inv[i].calls
    /\ inv[i].pc = "done" => inv'[i] = inv[i]

\* C13: within one invocation the security call is issued first, the analysis
\* call only after the security call completed with status 200, each endpoint
\* at most once, and no call when resolution fails or after the return.
C13_CallOrder ==
    /\ [](\A i \in DOMAIN inv : CallsInOrder(i))
    /\ [][\A i \in DOMAIN inv : CallsOnlyAppended(i)]_vars

\* C13 witness: an invocation finished after both calls, the second answered
\* with a status other than 200.
C13_Witness ==
    \E i \in DOMAIN inv :
        /\ inv[i].pc = "done"
        /\ Len(inv[i].calls) = 2
        /\ Answered(i, 2)
        /\ inv[i].responses[2].status = 500

\* The instance invocation i resolved (it issued a call, so resolution returned).
ResolvedInstance(i) == getInstanceConfig(instances, inv[i].instanceName).value

\* C14: every call of an invocation is a POST to the resolved instance's base
\* URL, carries that instance's credential, and is scoped to the invocation's
\* componentKey.
C14_SameCallShape ==
    \A i \in DOMAIN inv :
        \A n \in 1..Len(inv[i].calls) :
            /\ inv[i].calls[n].method = "POST"
            /\ inv[i].calls[n].url = ResolvedInstance(i).baseUrl
            /\ inv[i].calls[n].apiToken = ResolvedInstance(i).apiKey
            /\ inv[i].calls[n].path[2] = inv[i].componentKey

\* What getFindings returns for its own arguments and the answers to its own
\* calls, read off the registry alone.
OwnResult(i) ==
    LET resolved == getInstanceConfig(instances, inv[i].instanceName)
        first == callApi(inv[i].responses[1])
        next == AfterSecurity(first)
    IN  IF resolved.kind = "throw" THEN resolved
        ELSE IF next.pc = "done" THEN next.result
        ELSE AfterAnalysis(first.value, callApi(inv[i].responses[2]))

RegistryNeverWritten ==
    construction = Constructed => instances' = instances

\* C15: once built, the registry is the list fromConfig built and no step of
\* any interleaving of resolutions and getFindings invocations changes it; and
\* the result of every completed getFindings invocation is determined by its
\* own arguments and the answers to its own calls, whatever the other
\* invocation is doing.
C15_Independent ==
    /\ [](construction = Constructed => instances = fromConfig(config).value)
    /\ [][RegistryNeverWritten]_vars
    /\ [](\A i \in DOMAIN inv : inv[i].pc = "done" => inv[i].result = OwnResult(i))

\* C15 witness: two invocations with the same arguments, both complete after
\* two calls each, one with a summary and the other absent, with a resolution
\* made in between.
C15_Witness ==
    /\ DOMAIN inv = ConcurrentInvocations
    /\ inv[1].pc = "done" /\ inv[2].pc = "done"
    /\ inv[1].componentKey = inv[2].componentKey
    /\ inv[1].instanceName = inv[2].instanceName
    /\ Len(inv[1].responses) = 2 /\ Len(inv[2].responses) = 2
    /\ inv[1].security # inv[2].security
    /\ IsSummary(inv[1].result)
    /\ inv[2].result = Absent
    /\ lastCall.op = "getBaseUrl"

----------------------------------------------------------------------------
(* Further properties of construction and resolution (specification Spec) *)

\* C16 as stated: when no record is named "default", a resolution with the
\* name "default" fails with a message other than the one a resolution with
\* the name omitted fails with.
C16_Original ==
    (lastCall.op # "none" /\ lastCall.name = DEFAULT_CODACY_NAME
     /\ lastCall.outcome.kind = "throw")
        => lastCall.outcome.error.message
              # getInstanceConfig(instances, Undefined).error.message

\* C16 amended: when no record is named "default", a resolution with the name
\* "default" and a resolution with the name omitted fail with one and the same
\* message, the default-instance one; only the failure of a resolution with
\* another name carries a different message.
C16_OneDefaultMessage ==
    (lastCall.op # "none" /\ ~HasRecordNamed(DEFAULT_CODACY_NAME))
        => /\ lastCall.name \in {Undefined, DEFAULT_CODACY_NAME}
                => lastCall.outcome = Throw(NoDefaultError)
           /\ (lastCall.name \notin DefaultRequests
               /\ lastCall.outcome.kind = "throw")
                => lastCall.outcome.error.message # NoDefaultError.message

\* C16 witness: getBaseUrl with the explicit name "default" on an empty
\* registry fails with the default-instance message.
C16_Witness ==
    /\ construction = Constructed
    /\ instances = <<>>
    /\ lastCall.op = "getBaseUrl"
    /\ lastCall.name = DEFAULT_CODACY_NAME
    /\ lastCall.outcome = Throw(NoDefaultError)

TopLevelAllOrNothing ==
    TopLevelPresent = {} \/ {"baseUrl", "apiKey"} \subseteq DOMAIN config

\* C17: fromConfig succeeds only when the top-level fields are all absent or
\* baseUrl and apiKey are both present; any other combination of top-level
\* fields (externalBaseUrl alone included) in a configuration without a named
\* "default" fails with the incompleteness error, so a successful construction
\* never drops a supplied top-level field.
C17_AllOrNothing ==
    construction # Pending
        => /\ construction = Constructed => TopLevelAllOrNothing
           /\ (~TopLevelAllOrNothing /\ ~NamedDefaultConfigured)
                => construction = Throw(PartialError)

EntryRecord(e) ==
    [name |-> e.name,
     baseUrl |-> e.baseUrl,
     externalBaseUrl |-> IF "externalBaseUrl" \in DOMAIN e
                         THEN e.externalBaseUrl ELSE Undefined,
     apiKey |-> e.apiKey]

ExpectedRegistry ==
    [i \in 1..Len(ConfiguredEntries) |-> EntryRecord(ConfiguredEntries[i])]
        \o (IF {"baseUrl", "apiKey"} \subseteq DOMAIN config
            THEN <<ConfiguredDefault>> ELSE <<>>)

\* The record a resolution with the name of lastCall must find: the first of
\* the registry that carries the effective name.
FirstOfName(record) ==
    \E i \in 1..Len(instances) :
        /\ instances[i] = record
        /\ instances[i].name = EffectiveName(lastCall.name)
        /\ \A j \in 1..(i - 1) : instances[j].name # EffectiveName(lastCall.name)

\* C19: the registry fromConfig builds is the named instances in configuration
\* order followed, when the top-level block is complete, by the synthetic
\* "default" record as last element; and a successful resolution returns the
\* first record of the registry carrying the requested name (getBaseUrl: its
\* two URLs), also when several records carry it.
C19_OrderAndFirstMatch ==
    /\ construction = Constructed => instances = ExpectedRegistry
    /\ (lastCall.op = "getInstanceConfig" /\ lastCall.outcome.kind = "return")
         => FirstOfName(lastCall.outcome.value)
    /\ (lastCall.op = "getBaseUrl" /\ lastCall.outcome.kind = "return")
         => \E i \in 1..Len(instances) :
               /\ FirstOfName(instances[i])
               /\ lastCall.outcome.value =
                     [baseUrl |-> instances[i].baseUrl,
                      externalBaseUrl |-> instances[i].externalBaseUrl]

\* C19 witness: two named instances called "other" with different URLs; the
\* resolution of "other" returns the first and not the second.
C19_Witness ==
    /\ Len(instances) = 2
    /\ instances[1].name = "other" /\ instances[2].name = "other"
    /\ instances[1].baseUrl # instances[2].baseUrl
    /\ lastCall.op = "getInstanceConfig"
    /\ lastCall.name = "other"
    /\ lastCall.outcome = Return(instances[1])

----------------------------------------------------------------------------
(* Further properties of getFindings *)

FirstPayload(i) == inv[i].responses[1].body.value

SecondPayload(i) == inv[i].responses[2].body.value

AverageNames == {SummaryField[m] : m \in MetricNames}

\* C18: every summary a getFindings invocation returns holds all ten fields:
\* the four counters with the values of its own first payload's data, the five
\* averages computed from its own second payload's data, and the letter that
\* classifies the grade average held in the same summary.
C18_CompleteSummary ==
    \A i \in DOMAIN inv :
        (inv[i].pc = "done" /\ IsSummary(inv[i].result))
            => LET summary == inv[i].result.value.value
                   data == SecondPayload(i).data
               IN  /\ DOMAIN summary = CounterNames \cup AverageNames \cup {"grade_letter"}
                   /\ \A c \in CounterNames :
                         /\ c \in DOMAIN FirstPayload(i).data
                         /\ summary[c] = FirstPayload(i).data[c]
                   /\ \A m \in MetricNames :
                         summary[SummaryField[m]] = Divide(Total(data, m), Len(data))
                   /\ summary.grade_letter = calculate_grade(summary.grade)

Started(i) == inv[i].pc # "idle"

Completed(i) ==
    /\ inv[i].pc = "done"
    /\ \/ IsSummary(inv[i].result)
       \/ inv[i].result = Absent
       \/ inv[i].result.kind = "throw"

\* C20: provided every call that is issued gets an answer, every getFindings
\* invocation that was started eventually completes, with a summary, absent or
\* an error; and an invocation that is not complete is idle or has issued a
\* call that has no answer yet (only an unanswered call keeps it pending).
C20_Completes ==
    /\ \A i \in ConcurrentInvocations : Started(i) ~> Completed(i)
    /\ [](\A i \in ConcurrentInvocations :
            (Started(i) /\ ~Completed(i))
                => /\ inv[i].pc \in {"awaitSecurity", "awaitAnalysis"}
                   /\ Len(inv[i].calls) = Len(inv[i].responses) + 1)

\* C20 witness: both invocations are complete, the first absent after two
\* answered calls, the second with the error of its first call's transport
\* failure.
C20_Witness ==
    /\ DOMAIN inv = ConcurrentInvocations
    /\ \A i \in ConcurrentInvocations : Completed(i)
    /\ Len(inv[1].responses) = 2
    /\ inv[1].result = Absent
    /\ Len(inv[2].responses) = 1
    /\ inv[2].result.kind = "throw"

====
